---- MODULE Spec2Model ----
(***************************************************************************)
(* A model of src-tauri/src/commands.rs of youtudown: the yt-dlp           *)
(* executable locator, the error classifier, the metadata fetcher, the     *)
(* resolution summary, the progress-line parser and the download driver.   *)
(*                                                                         *)
(* Conventions.  An Option is a sequence of length at most one: None is    *)
(* <<>> and Some(x) is <<x>>.  A Result is a record with a boolean field   *)
(* ok.  A filesystem path is the sequence of its components.  A string     *)
(* that the code inspects character by character is a sequence of          *)
(* one-character strings; a diagnostic text that the code only searches    *)
(* for fixed substrings is a sequence of fragments.                        *)
(***************************************************************************)
EXTENDS Integers, Sequences, FiniteSets, TLC

VARIABLES
    \* ---- host environment read by get_ytdlp_path
    target_os,      \* the cfg!(target_os) the binary was built for
    path_var,       \* std::env::var("PATH"): None, or Some(list of directories)
    current_exe,    \* std::env::current_exe(): None (Err), or Some(path)
    fs,             \* filesystem: candidate path -> "absent" | "file" | "dir"
    located,        \* None before the call, Some(result of get_ytdlp_path)
    \* ---- format_ytdlp_error
    stderr,         \* the diagnostic text handed to the classifier
    formatted,      \* None before the call, Some(returned string)
    \* ---- extract_available_resolutions
    formats,        \* the Vec<VideoFormat> argument
    resolutions,    \* None before the call, Some(returned Vec<ResolutionOption>)
    \* ---- parse_progress_line
    line,           \* the line argument (characters)
    progress,       \* None before the call, Some(returned Option<Value>)
    \* ---- the notification sink (AppHandle::emit)
    events,         \* the events emitted so far, in order
    \* ---- download_video
    dl_pc,          \* the driver: "start", "wait" (at child.wait().await), "done"
    child,          \* the yt-dlp process: state, output still to write, exit code
    stdout_pipe,    \* stdout lines written by the child and not yet read
    stderr_pipe,    \* stderr lines written by the child and not yet read
    stdout_task,    \* the detached stdout reader: "none", "running", "done"
    stderr_task,    \* the detached stderr reader: "none", "running", "done"
    diagnostics,    \* the stderr lines the stderr reader printed
    status,         \* None, or Some(exit code child.wait() returned)
    dl_result,      \* None while the call runs, Some(its Result)
    \* ---- get_video_info
    launch,         \* whether Command::output could run the executable
    output,         \* the Output of the finished process: status, stdout, stderr
    info            \* None before the call, Some(its outcome)

envVars == <<target_os, path_var, current_exe, fs>>
locVars == <<located>>
clsVars == <<stderr, formatted>>
resVars == <<formats, resolutions>>
prgVars == <<line, progress>>
dlVars == <<dl_pc, child, stdout_pipe, stderr_pipe, stdout_task, stderr_task,
           diagnostics, status, dl_result>>
infVars == <<launch, output, info>>
vars == <<envVars, locVars, clsVars, resVars, prgVars, events, dlVars, infVars>>

None == <<>>
Some(x) == <<x>>
IsSome(o) == Len(o) = 1
Unwrap(o) == o[1]

\* The value of a variable that the specification at hand does not use.
Idle == <<>>

\* Index of the first element of s satisfying P, 0 when there is none
\* (Iterator::find / a for loop that returns or breaks at the first hit).
FirstIndex(s, P(_)) ==
    IF \E i \in 1..Len(s) : P(s[i])
    THEN CHOOSE i \in 1..Len(s) : P(s[i]) /\ \A j \in 1..(i - 1) : ~P(s[j])
    ELSE 0

\* The least element of a non-empty set of integers
Least(S) == CHOOSE i \in S : \A j \in S : i <= j

SeqsUpTo(S, n) == UNION {[1..k -> S] : k \in 0..n}

(***************************************************************************)
(* Executable locator: get_ytdlp_path (commands.rs 58-141)                 *)
(***************************************************************************)

OperatingSystems == {"linux", "macos", "windows"}

\* commands.rs 59-63
ytdlp_names(os) ==
    IF os = "windows"
    THEN <<"yt-dlp.exe", "yt-dlp_x86.exe", "yt-dlp.exe_x86.exe">>
    ELSE <<"yt-dlp", "yt-dlp_linux", "yt-dlp_macos">>

\* commands.rs 80-84
homebrew_paths ==
    << <<"opt", "homebrew", "bin", "yt-dlp">>,
       <<"usr", "local", "bin", "yt-dlp">>,
       <<"opt", "homebrew", "bin", "yt-dlp">> >>

\* commands.rs 95-99
linux_paths ==
    << <<"usr", "bin", "yt-dlp">>,
       <<"usr", "local", "bin", "yt-dlp">>,
       <<"snap", "bin", "yt-dlp">> >>

\* commands.rs 110-114
windows_paths ==
    << <<"C:", "ProgramData", "chocolatey", "bin", "yt-dlp.exe">>,
       <<"C:", "Program Files", "yt-dlp", "yt-dlp.exe">>,
       <<"C:", "Program Files (x86)", "yt-dlp", "yt-dlp.exe">> >>

\* The #[cfg(target_os = ...)] block compiled into the binary (78-121).
common_paths(os) ==
    CASE os = "macos" -> homebrew_paths
      [] os = "linux" -> linux_paths
      [] os = "windows" -> windows_paths

\* Path::exists and Path::is_file over the modelled filesystem.
exists(f, p) == p \in DOMAIN f /\ f[p] # "absent"
is_file(f, p) == p \in DOMAIN f /\ f[p] = "file"

\* PathBuf::join
join(dir, name) == Append(dir, name)

\* Path::parent: None for a path with no components left
parent(p) == IF Len(p) = 0 THEN None ELSE Some(SubSeq(p, 1, Len(p) - 1))

\* The candidates of step 1 in the order the nested loops visit them
\* (commands.rs 67-69): every PATH directory, every name.
RECURSIVE path_candidates(_, _)
path_candidates(dirs, names) ==
    IF dirs = <<>> THEN <<>>
    ELSE [i \in 1..Len(names) |-> join(Head(dirs), names[i])]
         \o path_candidates(Tail(dirs), names)

\* The candidates of step 3 in the order the loop visits them
\* (commands.rs 126-135): per name, the executable's directory and then
\* <exe_dir>/../Resources.
RECURSIVE sidecar_candidates(_, _)
sidecar_candidates(exe_dir, names) ==
    IF names = <<>> THEN <<>>
    ELSE << join(exe_dir, Head(names)),
            join(join(join(exe_dir, ".."), "Resources"), Head(names)) >>
         \o sidecar_candidates(exe_dir, Tail(names))

\* Step 1 (commands.rs 66-75): the first PATH candidate that exists and is a
\* regular file; nothing when PATH is unset.
search_path(os, pv, f) ==
    IF ~IsSome(pv) THEN None
    ELSE LET c == path_candidates(Unwrap(pv), ytdlp_names(os))
             hit(p) == exists(f, p) /\ is_file(f, p)
             i == FirstIndex(c, hit)
         IN IF i = 0 THEN None ELSE Some(c[i])

\* Step 2 (commands.rs 78-121): the first well-known path that exists.
search_common(os, f) ==
    LET c == common_paths(os)
        hit(p) == exists(f, p)
        i == FirstIndex(c, hit)
    IN IF i = 0 THEN None ELSE Some(c[i])

\* Step 3 (commands.rs 124-138): the first sidecar candidate that exists;
\* nothing when current_exe fails or the path has no parent.
search_sidecar(os, exe, f) ==
    IF ~IsSome(exe) THEN None
    ELSE IF ~IsSome(parent(Unwrap(exe))) THEN None
    ELSE LET c == sidecar_candidates(Unwrap(parent(Unwrap(exe))), ytdlp_names(os))
             hit(p) == exists(f, p)
             i == FirstIndex(c, hit)
         IN IF i = 0 THEN None ELSE Some(c[i])

\* commands.rs 140: the NotFound remediation message
NotFoundMsg == <<"yt-dlp executable not found; make sure yt-dlp is installed and on PATH">>

Ok(v) == [ok |-> TRUE, value |-> v]
Err(e) == [ok |-> FALSE, error |-> e]

\* commands.rs 58-141
get_ytdlp_path(os, pv, exe, f) ==
    LET s1 == search_path(os, pv, f)
        s2 == search_common(os, f)
        s3 == search_sidecar(os, exe, f)
    IN IF IsSome(s1) THEN Ok(Unwrap(s1))
       ELSE IF IsSome(s2) THEN Ok(Unwrap(s2))
       ELSE IF IsSome(s3) THEN Ok(Unwrap(s3))
       ELSE Err(NotFoundMsg)

\* ---- the environments explored

MaxPathDirs == 2
MaxEntries == 2

SearchDirs == { <<"usr", "local", "bin">>, <<"home", "u", "bin">> }
PathVars == {None} \cup {Some(d) : d \in SeqsUpTo(SearchDirs, MaxPathDirs)}
ExePaths == {None, Some(<<"opt", "app", "youtudown">>),
             Some(<<"home", "u", "bin", "youtudown">>)}

Range(s) == {s[i] : i \in 1..Len(s)}

\* Every path get_ytdlp_path may probe, in probing order.
candidates(os, pv, exe) ==
    (IF IsSome(pv) THEN path_candidates(Unwrap(pv), ytdlp_names(os)) ELSE <<>>)
    \o common_paths(os)
    \o (IF IsSome(exe) /\ IsSome(parent(Unwrap(exe)))
        THEN sidecar_candidates(Unwrap(parent(Unwrap(exe))), ytdlp_names(os))
        ELSE <<>>)

\* Filesystems over the probed paths with at most MaxEntries existing entries.
Filesystems(paths) ==
    UNION { { [p \in paths |-> IF p \in S THEN k[p] ELSE "absent"] :
                k \in [S -> {"file", "dir"}] } :
            S \in {T \in SUBSET paths : Cardinality(T) <= MaxEntries} }

EnvInit ==
    /\ target_os \in OperatingSystems
    /\ path_var \in PathVars
    /\ current_exe \in ExePaths
    /\ fs \in Filesystems(Range(candidates(target_os, path_var, current_exe)))

LocIdle == located = Idle
ClsIdle == stderr = Idle /\ formatted = Idle
ResIdle == formats = Idle /\ resolutions = Idle
PrgIdle == line = Idle /\ progress = Idle
EvtIdle == events = Idle
DlIdle ==
    /\ dl_pc = Idle /\ child = Idle /\ stdout_pipe = Idle /\ stderr_pipe = Idle
    /\ stdout_task = Idle /\ stderr_task = Idle /\ diagnostics = Idle
    /\ status = Idle /\ dl_result = Idle
InfIdle == launch = Idle /\ output = Idle /\ info = Idle

\* One call of get_ytdlp_path in the environment at hand.
Locate ==
    /\ located = None
    /\ located' = Some(get_ytdlp_path(target_os, path_var, current_exe, fs))
    /\ UNCHANGED <<envVars, clsVars, resVars, prgVars, events, dlVars, infVars>>

LocateInit == EnvInit /\ located = None /\ ClsIdle /\ ResIdle /\ PrgIdle /\ EvtIdle /\ DlIdle /\ InfIdle
LocateNext == Locate
SpecLocate == LocateInit /\ [][LocateNext]_vars

\* The first probed path that is an existing regular file, if any.
FirstRegularFile ==
    LET c == candidates(target_os, path_var, current_exe)
        regular(p) == is_file(fs, p)
        i == FirstIndex(c, regular)
    IN IF i = 0 THEN None ELSE Some(c[i])

\* C9: get_ytdlp_path returns the first probed path, in probing order, that
\* is an existing regular file (so never a directory, and with no regular
\* file at an earlier candidate), and fails with the NotFound message
\* exactly when no probed path is an existing regular file.
C9_FirstRegularFileOrNotFound ==
    IsSome(located) =>
        LET r == Unwrap(located)
        IN IF IsSome(FirstRegularFile)
           THEN r = Ok(Unwrap(FirstRegularFile))
           ELSE r = Err(NotFoundMsg)

(***************************************************************************)
(* Error classifier: format_ytdlp_error (commands.rs 150-198)              *)
(*                                                                         *)
(* The diagnostic is a sequence of fragments; each substring the code      *)
(* searches for is one fragment, so str::contains is membership, and       *)
(* format!("{}...{}") is concatenation.                                    *)
(***************************************************************************)

BotFragment == "Sign in to confirm you're not a bot"
KnownFragments ==
    {BotFragment, "429", "Too Many Requests", "cookies", "login",
     "Impersonate target", "not available", "ERROR: [youtube]"}
OtherFragments == {"HTTP Error ", ": "}
Fragments == KnownFragments \cup OtherFragments

\* commands.rs 151: the text format! puts before the diagnostic
BasePrefix == "yt-dlp failed: "

\* The remediation blocks (commands.rs 156-160, 165-168, 173-176, 181-184,
\* 189-192), each the text from the blank line to the last step.
BotBlock == "[fix] sign in to YouTube in Chrome; try another link; adjust anti-detection; wait and retry"
RateLimitBlock == "[fix] increase the request interval; wait a few minutes; try a proxy"
CookieBlock == "[fix] sign in in the browser; check browser cookie permission; export a cookie file"
ImpersonateBlock == "[fix] pip install curl_cffi; or reinstall yt-dlp[curl-cffi]; see the project documentation"
ExtractionBlock == "[fix] check the link; refresh the page for a new link; the video may be region-locked or deleted"
Blocks == {BotBlock, RateLimitBlock, CookieBlock, ImpersonateBlock, ExtractionBlock}

\* str::contains for one of the searched substrings
contains(text, pat) == \E i \in 1..Len(text) : text[i] = pat

\* A variant that tests the cookie/login condition before the rate-limit one.
format_ytdlp_error_cookie_first(text) ==
    LET base_error == <<BasePrefix>> \o text
    IN IF contains(text, BotFragment)
       THEN Append(base_error, BotBlock)
       ELSE IF contains(text, "cookies") \/ contains(text, "login")
       THEN Append(base_error, CookieBlock)
       ELSE IF contains(text, "429") \/ contains(text, "Too Many Requests")
       THEN Append(base_error, RateLimitBlock)
       ELSE IF contains(text, "Impersonate target") /\ contains(text, "not available")
       THEN Append(base_error, ImpersonateBlock)
       ELSE IF contains(text, "ERROR: [youtube]")
       THEN Append(base_error, ExtractionBlock)
       ELSE base_error

\* A variant without the bot-detection branch.
format_ytdlp_error_no_bot(text) ==
    LET base_error == <<BasePrefix>> \o text
    IN IF contains(text, "429") \/ contains(text, "Too Many Requests")
       THEN Append(base_error, RateLimitBlock)
       ELSE IF contains(text, "cookies") \/ contains(text, "login")
       THEN Append(base_error, CookieBlock)
       ELSE IF contains(text, "Impersonate target") /\ contains(text, "not available")
       THEN Append(base_error, ImpersonateBlock)
       ELSE IF contains(text, "ERROR: [youtube]")
       THEN Append(base_error, ExtractionBlock)
       ELSE base_error

\* commands.rs 150-198
format_ytdlp_error(text) ==
    LET base_error == <<BasePrefix>> \o text
    IN IF contains(text, BotFragment)
       THEN Append(base_error, BotBlock)
       ELSE IF contains(text, "429") \/ contains(text, "Too Many Requests")
       THEN Append(base_error, RateLimitBlock)
       ELSE IF contains(text, "cookies") \/ contains(text, "login")
       THEN Append(base_error, CookieBlock)
       ELSE IF contains(text, "Impersonate target") /\ contains(text, "not available")
       THEN Append(base_error, ImpersonateBlock)
       ELSE IF contains(text, "ERROR: [youtube]")
       THEN Append(base_error, ExtractionBlock)
       ELSE base_error

MaxTextLen == 3

\* The diagnostic of the spec's end-to-end example
Http429 == <<"HTTP Error ", "429", ": ", "Too Many Requests">>

Diagnostics == SeqsUpTo(Fragments, MaxTextLen) \cup {Http429}

Classify ==
    /\ formatted = None
    /\ formatted' = Some(format_ytdlp_error(stderr))
    /\ UNCHANGED <<envVars, locVars, stderr, resVars, prgVars, events, dlVars, infVars>>

EnvIdle == target_os = Idle /\ path_var = Idle /\ current_exe = Idle /\ fs = Idle

ClassifyInit ==
    /\ stderr \in Diagnostics /\ formatted = None
    /\ EnvIdle /\ LocIdle /\ ResIdle /\ PrgIdle /\ EvtIdle /\ DlIdle /\ InfIdle
ClassifyNext == Classify
SpecClassify == ClassifyInit /\ [][ClassifyNext]_vars

\* The five conditions in the claimed priority order, 1 the highest.
Matches(c, text) ==
    CASE c = 1 -> contains(text, BotFragment)
      [] c = 2 -> contains(text, "429") \/ contains(text, "Too Many Requests")
      [] c = 3 -> contains(text, "cookies") \/ contains(text, "login")
      [] c = 4 -> contains(text, "Impersonate target") /\ contains(text, "not available")
      [] c = 5 -> contains(text, "ERROR: [youtube]")
BlockOf(c) ==
    CASE c = 1 -> BotBlock
      [] c = 2 -> RateLimitBlock
      [] c = 3 -> CookieBlock
      [] c = 4 -> ImpersonateBlock
      [] c = 5 -> ExtractionBlock
Matching(text) == {c \in 1..5 : Matches(c, text)}
Highest(S) == CHOOSE c \in S : \A d \in S : c <= d

\* C5 as stated: a diagnostic containing the bot-detection text comes back
\* as the original text with the bot block appended, and a diagnostic with
\* none of the known substrings comes back equal to the input.
C5_TextUnchanged ==
    IsSome(formatted) =>
        /\ contains(stderr, BotFragment) => Unwrap(formatted) = Append(stderr, BotBlock)
        /\ Matching(stderr) = {} => Unwrap(formatted) = stderr

\* C5 amended: the result is the fixed prefix of line 151 followed by the
\* original text, with the bot block appended when the text contains the
\* bot-detection substring and with nothing appended when it contains none
\* of the known substrings.
C5_PrefixedText ==
    IsSome(formatted) =>
        /\ contains(stderr, BotFragment) =>
              Unwrap(formatted) = <<BasePrefix>> \o stderr \o <<BotBlock>>
        /\ Matching(stderr) = {} =>
              Unwrap(formatted) = <<BasePrefix>> \o stderr

C5_BotClassified ==
    /\ IsSome(formatted)
    /\ contains(stderr, BotFragment)
    /\ Len(stderr) > 1

\* C6: when the diagnostic matches at least one condition, the result is
\* the prefixed diagnostic followed by exactly one block, the block of the
\* highest-priority matching condition (bot > rate limit > cookie/login >
\* impersonation > extraction), and no other block is added.
C6_FirstMatchWins ==
    IsSome(formatted) /\ Matching(stderr) # {} =>
        LET out == Unwrap(formatted)
            n == Len(stderr) + 1
        IN /\ Len(out) = n + 1
           /\ SubSeq(out, 1, n) = <<BasePrefix>> \o stderr
           /\ out[n + 1] = BlockOf(Highest(Matching(stderr)))
           /\ \A i \in 1..n : out[i] \notin Blocks

C6_SeveralMatch ==
    /\ IsSome(formatted)
    /\ Cardinality(Matching(stderr)) >= 2
    /\ 1 \notin Matching(stderr)

(***************************************************************************)
(* Resolution summary: extract_available_resolutions (commands.rs 359-410) *)
(***************************************************************************)

\* commands.rs 38-46
VideoFormat(format_id, height, width, ext, filesize, vcodec, acodec) ==
    [format_id |-> format_id, height |-> height, width |-> width, ext |-> ext,
     filesize |-> filesize, vcodec |-> vcodec, acodec |-> acodec]

\* commands.rs 31-35
ResolutionOption(height, label, format_id) ==
    [height |-> height, label |-> label, format_id |-> format_id]

\* commands.rs 363-374
resolution_labels ==
    (4320 :> "8K") @@ (2880 :> "5K") @@ (2160 :> "4K") @@ (1440 :> "2K") @@
    (1080 :> "1080p") @@ (720 :> "720p") @@ (480 :> "480p") @@ (360 :> "360p") @@
    (240 :> "240p") @@ (144 :> "144p")

\* commands.rs 385-388: the conventional label, else format!("{}p", height)
label_of(height) ==
    IF height \in DOMAIN resolution_labels
    THEN resolution_labels[height]
    ELSE ToString(height) \o "p"

\* commands.rs 378: formats without a video codec, or with codec "none", are skipped
skipped(format) ==
    IF IsSome(format.vcodec) THEN Unwrap(format.vcodec) = "none" ELSE TRUE

\* commands.rs 398-399: the current format has a file size, and some format of
\* the whole list carries the entry's format_id and has no file size
prefers(all, format, entry) ==
    /\ IsSome(format.filesize)
    /\ \E i \in 1..Len(all) :
          all[i].format_id = entry.format_id /\ ~IsSome(all[i].filesize)

\* A variant that keys the map by format_id instead of height.
entry_key_by_id(format) == format.format_id

\* commands.rs 391: the key of the map entry a format goes to
entry_key(format) == Unwrap(format.height)

\* A variant that replaces the entry whenever the current format has a size.
visit_always_replace(all, map, format) ==
    IF skipped(format) \/ ~IsSome(format.height) THEN map
    ELSE LET height == Unwrap(format.height)
             key == entry_key(format)
             entry == IF key \in DOMAIN map THEN map[key]
                      ELSE ResolutionOption(height, label_of(height), format.format_id)
             chosen == IF IsSome(format.filesize)
                       THEN [entry EXCEPT !.format_id = format.format_id]
                       ELSE entry
         IN (key :> chosen) @@ map

\* One iteration of the loop of commands.rs 376-403 over the map so far.
visit(all, map, format) ==
    IF skipped(format) \/ ~IsSome(format.height) THEN map
    ELSE LET height == Unwrap(format.height)
             key == entry_key(format)
             entry == IF key \in DOMAIN map THEN map[key]
                      ELSE ResolutionOption(height, label_of(height), format.format_id)
             chosen == IF prefers(all, format, entry)
                       THEN [entry EXCEPT !.format_id = format.format_id]
                       ELSE entry
         IN (key :> chosen) @@ map

\* The map after the first n formats (commands.rs 360, 376-403).
RECURSIVE collect(_, _)
collect(all, n) ==
    IF n = 0 THEN <<>> ELSE visit(all, collect(all, n - 1), all[n])

\* commands.rs 406-407: the values of the map in some order, sorted by
\* b.height.cmp(&a.height); the sort is stable, and any two orders of the
\* values agree after it unless two values share a height.
sorted_desc(values) ==
    {s \in [1..Cardinality(values) -> values] :
        /\ Range(s) = values
        /\ \A i \in 1..(Len(s) - 1) : s[i].height >= s[i + 1].height}

\* commands.rs 359-410: the orders the returned vector may have
extract_available_resolutions(all) ==
    LET map == collect(all, Len(all))
    IN sorted_desc({map[k] : k \in DOMAIN map})

MaxFormats == 3

FormatIds == {"137", "22", "unknown"}
Heights == {720, 1080}
SomeOf(S) == {None} \cup {Some(x) : x \in S}
\* Formats with a video codec and a height, and one shape of each kind of
\* format the loop passes over: no codec, codec "none", no height.
VideoFormats ==
    {VideoFormat(id, Some(h), None, "mp4", sz, Some("avc1"), None) :
        id \in FormatIds, h \in Heights, sz \in SomeOf({10})}
    \cup {VideoFormat(id, Some(720), None, "m4a", sz, None, Some("mp4a")) :
        id \in FormatIds, sz \in SomeOf({10})}
    \cup {VideoFormat(id, Some(1080), None, "m4a", sz, Some("none"), Some("mp4a")) :
        id \in FormatIds, sz \in SomeOf({10})}
    \cup {VideoFormat(id, None, None, "mp4", sz, Some("avc1"), None) :
        id \in FormatIds, sz \in SomeOf({10})}

Extract ==
    /\ resolutions = None
    /\ \E r \in extract_available_resolutions(formats) : resolutions' = Some(r)
    /\ UNCHANGED <<envVars, locVars, clsVars, formats, prgVars, events, dlVars, infVars>>

ExtractInit ==
    /\ \E n \in 0..MaxFormats : formats \in [1..n -> VideoFormats]
    /\ resolutions = None
    /\ EnvIdle /\ LocIdle /\ ClsIdle /\ PrgIdle /\ EvtIdle /\ DlIdle /\ InfIdle
ExtractNext == Extract
SpecExtract == ExtractInit /\ [][ExtractNext]_vars

\* The formats that may represent height h, in list order: a video codec
\* other than "none", and height h.
Eligible(all, h) ==
    {i \in 1..Len(all) : ~skipped(all[i]) /\ all[i].height = Some(h)}
Sized(all, h) == {i \in Eligible(all, h) : IsSome(all[i].filesize)}

\* The simpler rule: the first eligible format with a known size, else the
\* first eligible format.
PreferSized(all, h) ==
    IF Sized(all, h) # {} THEN all[Least(Sized(all, h))].format_id
    ELSE all[Least(Eligible(all, h))].format_id

DistinctIds(all) ==
    \A i, j \in 1..Len(all) : all[i].format_id = all[j].format_id => i = j

\* C3: the result has at most one entry per height and its entries are in
\* strictly descending order of height.
C3_StrictlyDescending ==
    IsSome(resolutions) =>
        LET r == Unwrap(resolutions)
        IN \A i, j \in 1..Len(r) : i < j => r[i].height > r[j].height

C3_SharedHeight ==
    /\ IsSome(resolutions)
    /\ Len(Unwrap(resolutions)) = 2
    /\ \E h \in Heights : Cardinality(Eligible(formats, h)) >= 2

\* C4 as stated: for every format list, repeated format_ids included, the
\* representative of each height in the result is the one the simpler rule
\* picks (first eligible format with a size, else first eligible format).
C4_EquivalentToPreferSized ==
    IsSome(resolutions) =>
        LET r == Unwrap(resolutions)
        IN \A i \in 1..Len(r) : r[i].format_id = PreferSized(formats, r[i].height)

\* C4 amended: when the format_ids of the list are pairwise distinct the
\* representative is the one the simpler rule picks; with repeated
\* format_ids it is still the format_id of some eligible format of that
\* height with a known size when one exists, and of the first eligible
\* format otherwise, but not always of the first sized one.
C4_PreferSizedWhenIdsDistinct ==
    IsSome(resolutions) =>
        LET r == Unwrap(resolutions)
        IN \A i \in 1..Len(r) :
              LET h == r[i].height
              IN /\ DistinctIds(formats) => r[i].format_id = PreferSized(formats, h)
                 /\ Sized(formats, h) # {} =>
                       \E k \in Sized(formats, h) : r[i].format_id = formats[k].format_id
                 /\ Sized(formats, h) = {} => r[i].format_id = PreferSized(formats, h)

C4_SizedReplacesFirstSeen ==
    /\ IsSome(resolutions)
    /\ DistinctIds(formats)
    /\ \E h \in Heights :
          /\ Cardinality(Sized(formats, h)) = 2
          /\ Least(Eligible(formats, h)) \notin Sized(formats, h)

(***************************************************************************)
(* Progress-line parser: parse_progress_line (commands.rs 510-577)         *)
(*                                                                         *)
(* A line is a sequence of one-character strings, so that str::contains,   *)
(* split_whitespace, trim_end_matches and str::parse::<f64> are computed   *)
(* on the characters.                                                      *)
(***************************************************************************)

Whitespace == {" "}
Digits == {"0", "1", "2", "3", "4", "5", "6", "7", "8", "9"}

\* str::contains(pattern) for a non-empty pattern
str_contains(s, pat) ==
    \E i \in 1..(Len(s) - Len(pat) + 1) : SubSeq(s, i, i + Len(pat) - 1) = pat

\* Length of the longest prefix of s made of characters outside set C
RECURSIVE run_length(_, _)
run_length(s, C) ==
    IF s = <<>> \/ Head(s) \in C THEN 0 ELSE 1 + run_length(Tail(s), C)

\* str::split_whitespace: the maximal runs of non-whitespace, in order
RECURSIVE split_whitespace(_)
split_whitespace(s) ==
    IF s = <<>> THEN <<>>
    ELSE IF Head(s) \in Whitespace THEN split_whitespace(Tail(s))
    ELSE LET n == run_length(s, Whitespace)
         IN <<SubSeq(s, 1, n)>> \o split_whitespace(SubSeq(s, n + 1, Len(s)))

\* str::trim_end_matches(c): every trailing c is removed
RECURSIVE trim_end_matches(_, _)
trim_end_matches(s, c) ==
    IF s # <<>> /\ s[Len(s)] = c
    THEN trim_end_matches(SubSeq(s, 1, Len(s) - 1), c)
    ELSE s

\* str::trim().is_empty()
is_blank(s) == \A i \in 1..Len(s) : s[i] \in Whitespace

\* ---- str::parse::<f64>: [+-] (inf | infinity | nan | decimal [exponent])

Lower(c) ==
    CASE c = "N" -> "n" [] c = "A" -> "a" [] c = "I" -> "i" [] c = "F" -> "f"
      [] c = "T" -> "t" [] c = "Y" -> "y" [] c = "E" -> "e" [] OTHER -> c
lowercase(s) == [i \in 1..Len(s) |-> Lower(s[i])]

DigitValue(c) ==
    CASE c = "0" -> 0 [] c = "1" -> 1 [] c = "2" -> 2 [] c = "3" -> 3 [] c = "4" -> 4
      [] c = "5" -> 5 [] c = "6" -> 6 [] c = "7" -> 7 [] c = "8" -> 8 [] c = "9" -> 9

all_digits(s) == \A i \in 1..Len(s) : s[i] \in Digits

RECURSIVE digits_value(_)
digits_value(s) ==
    IF s = <<>> THEN 0
    ELSE 10 * digits_value(SubSeq(s, 1, Len(s) - 1)) + DigitValue(s[Len(s)])

\* A finite value sign * mant * 10^exp, kept with mant not divisible by ten
\* (and exp 0 for zero), so that equal numbers are equal records.
RECURSIVE normal(_, _, _)
normal(sign, mant, exp) ==
    IF mant = 0 THEN [class |-> "finite", sign |-> sign, mant |-> 0, exp |-> 0]
    ELSE IF mant % 10 = 0 THEN normal(sign, mant \div 10, exp + 1)
    ELSE [class |-> "finite", sign |-> sign, mant |-> mant, exp |-> exp]

NaN == [class |-> "nan", sign |-> 1, mant |-> 0, exp |-> 0]
Infinity(sign) == [class |-> "inf", sign |-> sign, mant |-> 0, exp |-> 0]

\* An unsigned decimal with optional fraction and optional exponent
parse_unsigned(sign, s) ==
    LET l == lowercase(s)
        epos == run_length(l, {"e"})
        body == SubSeq(l, 1, epos)
        has_exp == epos < Len(l)
        etext == SubSeq(l, epos + 2, Len(l))
        esign == IF etext # <<>> /\ Head(etext) = "-" THEN -1 ELSE 1
        edigits == IF etext # <<>> /\ Head(etext) \in {"+", "-"} THEN Tail(etext) ELSE etext
        dot == run_length(body, {"."})
        int_part == SubSeq(body, 1, dot)
        frac_part == SubSeq(body, dot + 2, Len(body))
        exp_ok == ~has_exp \/ (edigits # <<>> /\ all_digits(edigits))
        body_ok == /\ all_digits(int_part) /\ all_digits(frac_part)
                   /\ Len(int_part) + Len(frac_part) > 0
        exp == IF has_exp THEN esign * digits_value(edigits) ELSE 0
    IN IF body_ok /\ exp_ok
       THEN Some(normal(sign, digits_value(int_part \o frac_part), exp - Len(frac_part)))
       ELSE None

parse_f64(s) ==
    LET signed == s # <<>> /\ Head(s) \in {"+", "-"}
        sign == IF signed /\ Head(s) = "-" THEN -1 ELSE 1
        rest == IF signed THEN Tail(s) ELSE s
        l == lowercase(rest)
    IN IF l = <<"n", "a", "n">> THEN Some(NaN)
       ELSE IF l = <<"i", "n", "f">> \/ l = <<"i", "n", "f", "i", "n", "i", "t", "y">>
       THEN Some(Infinity(sign))
       ELSE parse_unsigned(sign, rest)

\* serde_json's conversion of an f64 (json! at commands.rs 569-573):
\* Number::from_f64 has no number for NaN or an infinity and the value is
\* then Null, here None.
json_number(f) == IF f.class = "finite" THEN Some(f) ELSE None

\* ---- the literals of commands.rs 512-563
DownloadMarker == <<"[", "d", "o", "w", "n", "l", "o", "a", "d", "]">>
PercentSign == <<"%">>
AtWord == <<"a", "t">>
EtaWord == <<"E", "T", "A">>
PerSecond == <<"/", "s">>
SpeedUnits == {<<"M", "i", "B", "/", "s">>, <<"K", "i", "B", "/", "s">>, <<"M", "B", "/", "s">>, <<"K", "B", "/", "s">>}

\* commands.rs 523-524: a token holding '%' whose text without the trailing
\* '%' characters parses as a number
percent_of(part) ==
    IF str_contains(part, PercentSign)
    THEN parse_f64(trim_end_matches(part, "%"))
    ELSE None

\* A variant that keeps scanning and ends with the last token that parses.
find_percent_last(parts) ==
    LET hits == {i \in 1..Len(parts) : IsSome(percent_of(parts[i]))}
    IN IF hits = {} THEN None
       ELSE percent_of(parts[CHOOSE i \in hits : \A j \in hits : j <= i])

\* commands.rs 521-529: the value of the first token for which percent_of
\* gives a number
find_percent(parts) ==
    LET hit(part) == IsSome(percent_of(part))
        i == FirstIndex(parts, hit)
    IN IF i = 0 THEN None ELSE percent_of(parts[i])

has_unit(part) == \E u \in SpeedUnits : str_contains(part, u)

\* A variant that looks for an "at" token in the whole line first and for a
\* unit token only when there is none.
find_speed_at_first(parts) ==
    LET at(i) == parts[i] = AtWord /\ i + 1 <= Len(parts)
        unit(i) == has_unit(parts[i])
        idx == 1..Len(parts)
        ats == {i \in idx : at(i)}
        units == {i \in idx : unit(i)}
    IN IF ats # {}
       THEN LET i == Least(ats)
            IN IF i + 2 <= Len(parts) /\ str_contains(parts[i + 2], PerSecond)
               THEN parts[i + 1] \o <<" ">> \o parts[i + 2]
               ELSE parts[i + 1]
       ELSE IF units # {} THEN parts[Least(units)]
       ELSE <<>>

\* commands.rs 534-553: one scan; at each token the "at" test comes first
\* and the unit test second, and the first token passing either ends it.
find_speed(parts) ==
    LET at(i) == parts[i] = AtWord /\ i + 1 <= Len(parts)
        unit(i) == has_unit(parts[i])
        stops == {i \in 1..Len(parts) : at(i) \/ unit(i)}
    IN IF stops = {} THEN <<>>
       ELSE LET i == Least(stops)
            IN IF at(i)
               THEN IF i + 2 <= Len(parts) /\ str_contains(parts[i + 2], PerSecond)
                    THEN parts[i + 1] \o <<" ">> \o parts[i + 2]
                    ELSE parts[i + 1]
               ELSE parts[i]

\* commands.rs 556-567
find_eta(parts) ==
    LET eta(i) == parts[i] = EtaWord /\ i + 1 <= Len(parts)
        clock(i) == Cardinality({k \in 1..Len(parts[i]) : parts[i][k] = ":"}) = 2
        stops == {i \in 1..Len(parts) : eta(i) \/ clock(i)}
    IN IF stops = {} THEN <<>>
       ELSE LET i == Least(stops)
            IN IF eta(i) THEN parts[i + 1] ELSE parts[i]

\* commands.rs 512: the line is looked at only with a marker or a '%' in it
is_candidate(l) == str_contains(l, DownloadMarker) \/ str_contains(l, PercentSign)

\* commands.rs 510-577: None, or Some(the snapshot)
parse_progress_line(l) ==
    IF ~is_candidate(l) THEN None
    ELSE LET parts == split_whitespace(l)
             percent == find_percent(parts)
         IN IF ~IsSome(percent) THEN None
            ELSE Some([percent |-> json_number(Unwrap(percent)),
                       speed |-> find_speed(parts),
                       eta |-> find_eta(parts)])

MaxTokens == 4

\* The line of the doc comment (commands.rs 504)
ExampleLine ==
    <<"[", "d", "o", "w", "n", "l", "o", "a", "d", "]", " ", " ", "4", "2", ".", "0", "%", " ", "o", "f", " ", "1", "2", "5", ".", "8", "9", "M", "i", "B", " ", "a", "t", " ", " ", "5", ".", "8", "2", "M", "i", "B", "/", "s", " ", "E", "T", "A", " ", "0", "0", ":", "1", "2">>

Words ==
    {DownloadMarker, AtWord, EtaWord,
     <<"4", "2", ".", "0", "%">>,
     <<"x", "%">>,
     <<"n", "a", "n", "%">>,
     <<"5", ".", "8", "2", "M", "i", "B", "/", "s">>,
     <<"K", "i", "B", "/", "s">>,
     <<"0", "0", ":", "1", "2">>}

\* The words of a list joined by single spaces
RECURSIVE join_words(_)
join_words(ws) ==
    IF ws = <<>> THEN <<>>
    ELSE IF Len(ws) = 1 THEN ws[1]
    ELSE ws[1] \o <<" ">> \o join_words(Tail(ws))

Lines == {join_words(ws) : ws \in SeqsUpTo(Words, MaxTokens)} \cup {ExampleLine}

\* commands.rs 458: the event the stdout reader emits for a snapshot
ProgressEvent(snapshot) == [event |-> "download-progress", payload |-> Some(snapshot)]

\* commands.rs 450-467, the body of the stdout reader's loop for one line:
\* the events it emits.  A blank line is not parsed; a line without a
\* snapshot is only logged.
on_stdout_line(l) ==
    IF is_blank(l) THEN <<>>
    ELSE LET parsed == parse_progress_line(l)
         IN IF IsSome(parsed) THEN <<ProgressEvent(Unwrap(parsed))>> ELSE <<>>

\* One line goes through parse_progress_line and through the loop body of
\* the stdout reader.
StdoutLine ==
    /\ progress = None
    /\ progress' = Some(parse_progress_line(line))
    /\ events' = events \o on_stdout_line(line)
    /\ UNCHANGED <<envVars, locVars, clsVars, resVars, line, dlVars, infVars>>

ParseInit ==
    /\ line \in Lines /\ progress = None /\ events = <<>>
    /\ EnvIdle /\ LocIdle /\ ClsIdle /\ ResIdle /\ DlIdle /\ InfIdle
ParseNext == StdoutLine
SpecParse == ParseInit /\ [][ParseNext]_vars

\* The tokens of the line at hand, and the places the two speed rules look at
Parts == split_whitespace(line)
AtPlaces == {i \in 1..Len(Parts) : Parts[i] = AtWord /\ i < Len(Parts)}
UnitPlaces == {i \in 1..Len(Parts) : has_unit(Parts[i])}
AfterAt(i) ==
    IF i + 2 <= Len(Parts) /\ str_contains(Parts[i + 2], PerSecond)
    THEN Parts[i + 1] \o <<" ">> \o Parts[i + 2]
    ELSE Parts[i + 1]
Yielded == IsSome(progress) /\ IsSome(Unwrap(progress))
Snapshot == Unwrap(Unwrap(progress))

ExampleSnapshot ==
    [percent |-> Some(normal(1, 42, 0)),
     speed |-> <<"5", ".", "8", "2", "M", "i", "B", "/", "s">>,
     eta |-> <<"0", "0", ":", "1", "2">>]

\* C7 as stated: on a line that yields a snapshot the speed is the token
\* after an "at" token whenever some "at" token is followed by another
\* token, the first token with a throughput unit only when there is no such
\* "at" token, and empty when there is neither; the example line gives
\* percent 42.0, speed "5.82MiB/s", eta "00:12".
C7_AtBeforeUnit ==
    /\ Yielded =>
        /\ AtPlaces # {} => Snapshot.speed = AfterAt(Least(AtPlaces))
        /\ AtPlaces = {} /\ UnitPlaces # {} => Snapshot.speed = Parts[Least(UnitPlaces)]
        /\ AtPlaces = {} /\ UnitPlaces = {} => Snapshot.speed = <<>>
    /\ IsSome(progress) /\ line = ExampleLine => progress = Some(Some(ExampleSnapshot))

\* C7 amended: the tokens are scanned once, in order, and the first token
\* that is either an "at" token followed by another token or a token with a
\* throughput unit decides the speed: the token after "at" (joined with the
\* one after it when that carries "/s") in the first case, the unit token
\* itself in the second, so a unit token standing before the "at" token
\* wins; the speed is empty when the line has neither; the example line
\* gives percent 42.0, speed "5.82MiB/s", eta "00:12".
C7_FirstOfAtOrUnit ==
    /\ Yielded =>
        /\ AtPlaces # {} /\ (\A u \in UnitPlaces : Least(AtPlaces) < u) =>
              Snapshot.speed = AfterAt(Least(AtPlaces))
        /\ UnitPlaces # {} /\ (\A a \in AtPlaces : Least(UnitPlaces) < a) =>
              Snapshot.speed = Parts[Least(UnitPlaces)]
        /\ AtPlaces = {} /\ UnitPlaces = {} => Snapshot.speed = <<>>
    /\ IsSome(progress) /\ line = ExampleLine => progress = Some(Some(ExampleSnapshot))

C7_UnitBeforeAt ==
    /\ Yielded
    /\ AtPlaces # {} /\ UnitPlaces # {}
    /\ Least(UnitPlaces) < Least(AtPlaces)
    /\ Snapshot.speed = Parts[Least(UnitPlaces)]

\* The tokens holding a '%', and those of them that parse as a number
PercentPlaces == {i \in 1..Len(Parts) : str_contains(Parts[i], PercentSign)}
ParsingPlaces ==
    {i \in PercentPlaces : IsSome(parse_f64(trim_end_matches(Parts[i], "%")))}
ValueAt(i) == Unwrap(parse_f64(trim_end_matches(Parts[i], "%")))

MaxStdoutLines == 2
MaxStderrLines == 1

\* A stdout line without a percent that parses
NoPercentLine == <<"[", "d", "o", "w", "n", "l", "o", "a", "d", "]", " ", "x", "%">>

StdoutLines == {ExampleLine, NoPercentLine, <<" ">>}
StderrLines == {Http429, <<>>}
ExitCodes == {0, 1}
Scripts ==
    [out : SeqsUpTo(StdoutLines, MaxStdoutLines),
     err : SeqsUpTo(StderrLines, MaxStderrLines)]

\* commands.rs 434, 486, 496: the error texts of the driver
SpawnFailedMsg == <<"cannot start the download process: ", "io error">>
WaitFailedMsg == <<"waiting for the download process failed: ", "io error">>
DownloadFailedMsg == <<"download failed: the process returned a non-zero exit code">>

\* commands.rs 491: the completion event, without payload
CompleteEvent == [event |-> "download-complete", payload |-> None]

Unit == <<>>

\* The filesystems of a host without yt-dlp and of one with it on PATH
NoEntries(paths) == [p \in paths |-> "absent"]
Installed(paths, at) == [p \in paths |-> IF p = at THEN "file" ELSE "absent"]

RunEnvInit ==
    /\ target_os = "linux"
    /\ path_var = Some(<< <<"usr", "local", "bin">> >>)
    /\ current_exe = None
    /\ LET paths == Range(candidates(target_os, path_var, current_exe))
       IN fs \in {NoEntries(paths), Installed(paths, <<"usr", "local", "bin", "yt-dlp">>)}

\* A variant in which the driver goes on only when both readers have ended.
wait_ready_joined ==
    /\ child.state = "exited"
    /\ stdout_task = "done"
    /\ stderr_task = "done"

\* commands.rs 483-485: child.wait().await completes when the child has exited
wait_ready == child.state = "exited"

\* A variant that emits the completion event whatever the exit code is.
on_exit_always_complete(code) ==
    IF code = 0
    THEN [emit |-> <<CompleteEvent>>, result |-> Ok(Unit)]
    ELSE [emit |-> <<CompleteEvent>>, result |-> Err(DownloadFailedMsg)]

\* commands.rs 488-497: what the driver emits and returns for an exit code
on_exit(code) ==
    IF code = 0
    THEN [emit |-> <<CompleteEvent>>, result |-> Ok(Unit)]
    ELSE [emit |-> <<>>, result |-> Err(DownloadFailedMsg)]

\* commands.rs 421-480: locate the executable, spawn the child with both
\* streams piped, spawn the two readers.  The call ends here when the
\* executable is not found or the spawn fails.
DownloadStart ==
    /\ dl_pc = "start"
    /\ LET found == get_ytdlp_path(target_os, path_var, current_exe, fs)
       IN \/ /\ ~found.ok
             /\ dl_result' = Some(Err(found.error))
             /\ dl_pc' = "done"
             /\ UNCHANGED <<child, stdout_task, stderr_task>>
          \/ /\ found.ok
             /\ dl_result' = Some(Err(SpawnFailedMsg))
             /\ dl_pc' = "done"
             /\ UNCHANGED <<child, stdout_task, stderr_task>>
          \/ /\ found.ok
             /\ \E script \in Scripts :
                   child' = [state |-> "running", out |-> script.out,
                             err |-> script.err, code |-> 0]
             /\ stdout_task' = "running"
             /\ stderr_task' = "running"
             /\ dl_pc' = "wait"
             /\ UNCHANGED dl_result
    /\ UNCHANGED <<envVars, locVars, clsVars, resVars, prgVars, events,
                   stdout_pipe, stderr_pipe, diagnostics, status, infVars>>

\* The child writes its next stdout line.
ChildWriteStdout ==
    /\ child.state = "running"
    /\ child.out # <<>>
    /\ stdout_pipe' = Append(stdout_pipe, Head(child.out))
    /\ child' = [child EXCEPT !.out = Tail(@)]
    /\ UNCHANGED <<envVars, locVars, clsVars, resVars, prgVars, events, dl_pc,
                   stderr_pipe, stdout_task, stderr_task, diagnostics, status, dl_result,
                   infVars>>

\* The child writes its next stderr line.
ChildWriteStderr ==
    /\ child.state = "running"
    /\ child.err # <<>>
    /\ stderr_pipe' = Append(stderr_pipe, Head(child.err))
    /\ child' = [child EXCEPT !.err = Tail(@)]
    /\ UNCHANGED <<envVars, locVars, clsVars, resVars, prgVars, events, dl_pc,
                   stdout_pipe, stdout_task, stderr_task, diagnostics, status, dl_result,
                   infVars>>

\* The child exits, with any exit code, after its last line.
ChildExit ==
    /\ child.state = "running"
    /\ child.out = <<>> /\ child.err = <<>>
    /\ \E code \in ExitCodes : child' = [child EXCEPT !.state = "exited", !.code = code]
    /\ UNCHANGED <<envVars, locVars, clsVars, resVars, prgVars, events, dl_pc,
                   stdout_pipe, stderr_pipe, stdout_task, stderr_task, diagnostics,
                   status, dl_result,
                   infVars>>

\* commands.rs 449-468: next_line gives a line; the loop body handles it.
StdoutRead ==
    /\ stdout_task = "running"
    /\ stdout_pipe # <<>>
    /\ events' = events \o on_stdout_line(Head(stdout_pipe))
    /\ stdout_pipe' = Tail(stdout_pipe)
    /\ UNCHANGED <<envVars, locVars, clsVars, resVars, prgVars, dl_pc, child,
                   stderr_pipe, stdout_task, stderr_task, diagnostics, status, dl_result,
                   infVars>>

\* commands.rs 449, 470: the loop ends when next_line gives Ok(None), at
\* end-of-stream, or an Err (a line that is not UTF-8, a failed read).
StdoutEnd ==
    /\ stdout_task = "running"
    /\ \/ stdout_pipe = <<>> /\ child.state = "exited"
       \/ stdout_pipe # <<>>
    /\ stdout_task' = "done"
    /\ UNCHANGED <<envVars, locVars, clsVars, resVars, prgVars, events, dl_pc, child,
                   stdout_pipe, stderr_pipe, stderr_task, diagnostics, status, dl_result,
                   infVars>>

\* commands.rs 475-479: a stderr line is printed unless it is blank.
StderrRead ==
    /\ stderr_task = "running"
    /\ stderr_pipe # <<>>
    /\ diagnostics' = IF Head(stderr_pipe) = <<>> THEN diagnostics
                      ELSE Append(diagnostics, Head(stderr_pipe))
    /\ stderr_pipe' = Tail(stderr_pipe)
    /\ UNCHANGED <<envVars, locVars, clsVars, resVars, prgVars, events, dl_pc, child,
                   stdout_pipe, stdout_task, stderr_task, status, dl_result,
                   infVars>>

\* commands.rs 475: the stderr loop ends at end-of-stream or at an Err.
StderrEnd ==
    /\ stderr_task = "running"
    /\ \/ stderr_pipe = <<>> /\ child.state = "exited"
       \/ stderr_pipe # <<>>
    /\ stderr_task' = "done"
    /\ UNCHANGED <<envVars, locVars, clsVars, resVars, prgVars, events, dl_pc, child,
                   stdout_pipe, stderr_pipe, stdout_task, diagnostics, status, dl_result,
                   infVars>>

\* commands.rs 483-497: wait returns the exit status; the driver emits the
\* completion event on success and returns.
DownloadWait ==
    /\ dl_pc = "wait"
    /\ wait_ready
    /\ status' = Some(child.code)
    /\ events' = events \o on_exit(child.code).emit
    /\ dl_result' = Some(on_exit(child.code).result)
    /\ dl_pc' = "done"
    /\ UNCHANGED <<envVars, locVars, clsVars, resVars, prgVars, child,
                   stdout_pipe, stderr_pipe, stdout_task, stderr_task, diagnostics,
                   infVars>>

\* commands.rs 486: wait itself fails; the call returns that error.
DownloadWaitError ==
    /\ dl_pc = "wait"
    /\ dl_result' = Some(Err(WaitFailedMsg))
    /\ dl_pc' = "done"
    /\ UNCHANGED <<envVars, locVars, clsVars, resVars, prgVars, events, child,
                   stdout_pipe, stderr_pipe, stdout_task, stderr_task, diagnostics, status,
                   infVars>>

DownloadInit ==
    /\ RunEnvInit
    /\ dl_pc = "start"
    /\ child = [state |-> "none", out |-> <<>>, err |-> <<>>, code |-> 0]
    /\ stdout_pipe = <<>> /\ stderr_pipe = <<>>
    /\ stdout_task = "none" /\ stderr_task = "none"
    /\ diagnostics = <<>> /\ status = None /\ dl_result = None
    /\ events = <<>>
    /\ LocIdle /\ ClsIdle /\ ResIdle /\ PrgIdle /\ InfIdle

DownloadNext ==
    \/ DownloadStart
    \/ ChildWriteStdout
    \/ ChildWriteStderr
    \/ ChildExit
    \/ StdoutRead
    \/ StdoutEnd
    \/ StderrRead
    \/ StderrEnd
    \/ DownloadWait
    \/ DownloadWaitError

SpecDownload == DownloadInit /\ [][DownloadNext]_vars

Completions == Cardinality({i \in 1..Len(events) : events[i] = CompleteEvent})

\* The whole text the child wrote to stderr, as the classifier would get it
RECURSIVE concat(_)
concat(ss) == IF ss = <<>> THEN <<>> ELSE Head(ss) \o concat(Tail(ss))

\* C1: once wait has returned the exit status of the child, a zero status
\* means exactly one "download-complete" event and a successful return, a
\* non-zero status means the generic failure text as the error, which is
\* not what format_ytdlp_error gives for the child's stderr, and no
\* completion event in any state of the run.
C1_ExitStatusDecidesOutcome ==
    /\ IsSome(status) /\ Unwrap(status) = 0 =>
          dl_result = Some(Ok(Unit)) /\ Completions = 1
    /\ IsSome(status) /\ Unwrap(status) # 0 =>
          /\ dl_result = Some(Err(DownloadFailedMsg))
          /\ \A prefix \in {SubSeq(diagnostics, 1, n) : n \in 0..Len(diagnostics)} :
                Unwrap(dl_result).error # format_ytdlp_error(concat(prefix))
          /\ \A i \in 1..Len(Unwrap(dl_result).error) :
                Unwrap(dl_result).error[i] \notin Blocks \cup {BasePrefix}
    /\ child.state = "exited" /\ child.code # 0 => Completions = 0
    /\ Completions <= 1
    /\ Completions = 1 => dl_result = Some(Ok(Unit))

C1_FailedAfterRateLimit ==
    /\ status = Some(1)
    /\ diagnostics = <<Http429>>
    /\ stdout_task = "done" /\ stderr_task = "done"
    /\ \E i \in 1..Len(events) : events[i].event = "download-progress"

\* C10: the driver never waits for a reader: in every state in which it
\* is at child.wait() and the child has exited, its last step (completion
\* event and return) can be taken, whatever the two readers are doing.
C10_DriverNeverJoinsReaders ==
    dl_pc = "wait" /\ child.state = "exited" => ENABLED DownloadWait

C10_ProgressAfterCompletion ==
    /\ dl_result = Some(Ok(Unit))
    /\ \E i, j \in 1..Len(events) :
          /\ i < j
          /\ events[i] = CompleteEvent
          /\ events[j].event = "download-progress"

(***************************************************************************)
(* Metadata fetcher: get_video_info, parse_video_info, parse_formats       *)
(* (commands.rs 207-350)                                                   *)
(*                                                                         *)
(* A serde_json Value is a record with one slot per kind of content, the   *)
(* slots a kind does not use being empty; an object is the sequence of     *)
(* its (key, value) entries.                                               *)
(***************************************************************************)

JValue(kind, str, num, items, fields) ==
    [kind |-> kind, str |-> str, num |-> num, items |-> items, fields |-> fields]
JNull == JValue("null", "", 0, <<>>, <<>>)
JStr(str) == JValue("string", str, 0, <<>>, <<>>)
\* a number written as an integer, and one written with a fraction
JInt(n) == JValue("int", "", n, <<>>, <<>>)
JFloat(n) == JValue("float", "", n, <<>>, <<>>)
JArr(items) == JValue("array", "", 0, items, <<>>)
JObj(fields) == JValue("object", "", 0, <<>>, fields)
Field(key, value) == [key |-> key, value |-> value]

HasKey(fields, key) == \E i \in 1..Len(fields) : fields[i].key = key
Lookup(fields, key) == fields[CHOOSE i \in 1..Len(fields) : fields[i].key = key].value

\* Value's Index<&str>: Null for a missing key and for a value that is no object
index(v, key) ==
    IF v.kind = "object" /\ HasKey(v.fields, key) THEN Lookup(v.fields, key) ELSE JNull

\* Value::as_str, as_i64, as_f64, as_array, as_object
as_str(v) == IF v.kind = "string" THEN Some(v.str) ELSE None
as_i64(v) == IF v.kind = "int" THEN Some(v.num) ELSE None
as_f64(v) == IF v.kind \in {"int", "float"} THEN Some(v.num) ELSE None
as_array(v) == IF v.kind = "array" THEN Some(v.items) ELSE None
as_object(v) == IF v.kind = "object" THEN Some(v.fields) ELSE None

\* Option::unwrap_or
unwrap_or(o, d) == IF IsSome(o) THEN Unwrap(o) ELSE d

\* commands.rs 270: the default title (Chinese for "no title")
NoTitle == "<no title>"

\* commands.rs 298-325: one element of the "formats" array
parse_format(format) ==
    VideoFormat(unwrap_or(as_str(index(format, "format_id")), "unknown"),
                as_i64(index(format, "height")),
                as_i64(index(format, "width")),
                unwrap_or(as_str(index(format, "ext")), "unknown"),
                as_i64(index(format, "filesize")),
                as_str(index(format, "vcodec")),
                as_str(index(format, "acodec")))

\* commands.rs 327-346: the single "format" object.  It is read through
\* Map's Index, which panics on a key the map does not hold.
single_format_panics(m) ==
    ~HasKey(m, "format_id") \/ ~HasKey(m, "ext") \/ ~HasKey(m, "filesize")
parse_single_format(m) ==
    VideoFormat(unwrap_or(as_str(Lookup(m, "format_id")), "unknown"),
                None, None,
                unwrap_or(as_str(Lookup(m, "ext")), "unknown"),
                as_i64(Lookup(m, "filesize")),
                None, None)

Panicked == [ok |-> FALSE, panic |-> "no entry found for key"]

\* commands.rs 293-350: Ok(the formats), or the panic of the Map index
parse_formats(json) ==
    LET arr == as_array(index(json, "formats"))
        obj == as_object(index(json, "format"))
    IN IF IsSome(arr)
       THEN Ok([i \in 1..Len(Unwrap(arr)) |-> parse_format(Unwrap(arr)[i])])
       ELSE IF IsSome(obj)
       THEN IF single_format_panics(Unwrap(obj)) THEN Panicked
            ELSE Ok(<<parse_single_format(Unwrap(obj))>>)
       ELSE Ok(<<>>)

\* commands.rs 21-28
VideoInfo(id, title, duration, thumbnail, fmts, available_resolutions) ==
    [id |-> id, title |-> title, duration |-> duration, thumbnail |-> thumbnail,
     formats |-> fmts, available_resolutions |-> available_resolutions]

\* commands.rs 260-291: the outcomes the call may have (one for each order
\* extract_available_resolutions may return)
parse_video_info(json) ==
    LET fmts == parse_formats(json)
    IN IF ~fmts.ok THEN {Panicked}
       ELSE {Ok(VideoInfo(unwrap_or(as_str(index(json, "id")), "unknown"),
                          unwrap_or(as_str(index(json, "title")), NoTitle),
                          unwrap_or(as_f64(index(json, "duration")), 0),
                          unwrap_or(as_str(index(json, "thumbnail")), ""),
                          fmts.value, r)) :
              r \in extract_available_resolutions(fmts.value)}

\* commands.rs 232, 243, 253: the error texts of the fetcher
ExecFailedMsg == <<"cannot run yt-dlp: ", "io error">>
NoDataMsg == <<"cannot get the video information: no response data">>
ParseFailedMsg == <<"cannot parse the video information">>

\* serde_json::from_str::<Value>(line): a line carries the Value it is the
\* JSON text of, or none when it is not JSON.
from_str(l) == l.json

\* commands.rs 207-254: the outcomes of the call
get_video_info(os, pv, exe, f, ran, out) ==
    LET found == get_ytdlp_path(os, pv, exe, f)
        parses(l) == IsSome(from_str(l))
        first == FirstIndex(out.stdout, parses)
    IN IF ~found.ok THEN {Err(found.error)}
       ELSE IF ~ran THEN {Err(ExecFailedMsg)}
       ELSE IF out.status # 0 THEN {Err(format_ytdlp_error(out.stderr))}
       ELSE IF out.stdout = <<>> THEN {Err(NoDataMsg)}
       ELSE IF first = 0 THEN {Err(ParseFailedMsg)}
       ELSE parse_video_info(Unwrap(from_str(out.stdout[first])))

MaxInfoLines == 3

FullRecord ==
    JObj(<< Field("id", JStr("abc")), Field("title", JStr("A video")),
            Field("duration", JFloat(12)), Field("thumbnail", JStr("https://i/abc.jpg")),
            Field("formats", JArr(<<
                JObj(<< Field("format_id", JStr("137")), Field("height", JInt(1080)),
                        Field("ext", JStr("mp4")), Field("filesize", JInt(10)),
                        Field("vcodec", JStr("avc1")) >>),
                JObj(<< Field("format_id", JStr("22")), Field("height", JInt(720)),
                        Field("vcodec", JStr("avc1")), Field("acodec", JStr("mp4a")) >>) >>)) >>)
EmptyRecord == JObj(<<>>)
SingleFormatRecord ==
    JObj(<< Field("id", JStr("one")),
            Field("format", JObj(<< Field("format_id", JStr("18")), Field("ext", JStr("mp4")),
                                    Field("filesize", JNull) >>)) >>)
BareFormatRecord == JObj(<< Field("format", JObj(<<>>)) >>)
JsonDocs == {FullRecord, EmptyRecord, SingleFormatRecord, BareFormatRecord, JInt(5)}

InfoLines ==
    {[raw |-> "", json |-> None], [raw |-> "WARNING: not json", json |-> None]}
    \cup {[raw |-> "json", json |-> Some(d)] : d \in JsonDocs}

Outputs ==
    [status : ExitCodes,
     stdout : SeqsUpTo(InfoLines, MaxInfoLines),
     stderr : {Http429, <<>>, <<"ERROR: [youtube]", "login">>}]

GetVideoInfo ==
    /\ info = None
    /\ \E r \in get_video_info(target_os, path_var, current_exe, fs, launch, output) :
          info' = Some(r)
    /\ UNCHANGED <<envVars, locVars, clsVars, resVars, prgVars, events, dlVars,
                   launch, output>>

InfoInit ==
    /\ RunEnvInit
    /\ launch \in BOOLEAN
    /\ output \in Outputs
    /\ info = None
    /\ LocIdle /\ ClsIdle /\ ResIdle /\ PrgIdle /\ EvtIdle /\ DlIdle
InfoNext == GetVideoInfo
SpecInfo == InfoInit /\ [][InfoNext]_vars

Launched ==
    /\ get_ytdlp_path(target_os, path_var, current_exe, fs).ok
    /\ launch
JsonPlaces == {i \in 1..Len(output.stdout) : IsSome(output.stdout[i].json)}

\* C2: when the executable is found and run, a non-zero exit gives the
\* failure format_ytdlp_error(stderr) (for "HTTP Error 429: Too Many
\* Requests" a text holding "429" and the rate-limit block); a zero exit
\* gives the metadata parsed from the first stdout line that is JSON,
\* whatever the later lines are, and a parse failure when stdout has no
\* line or no line that is JSON.
C2_FirstJsonLineOrClassifiedError ==
    IsSome(info) /\ Launched =>
        LET r == Unwrap(info)
        IN /\ output.status # 0 =>
                /\ r = Err(format_ytdlp_error(output.stderr))
                /\ output.stderr = Http429 =>
                      contains(r.error, "429") /\ contains(r.error, RateLimitBlock)
           /\ output.status = 0 /\ output.stdout = <<>> => r = Err(NoDataMsg)
           /\ output.status = 0 /\ output.stdout # <<>> /\ JsonPlaces = {} =>
                r = Err(ParseFailedMsg)
           /\ output.status = 0 /\ JsonPlaces # {} =>
                /\ r.ok
                /\ r \in parse_video_info(Unwrap(output.stdout[Least(JsonPlaces)].json))

\* the record handed to parse_video_info: the first stdout line that is JSON
FirstRecord == Unwrap(output.stdout[Least(JsonPlaces)].json)

\* C11: metadata parsing never fails on a valid JSON record: whenever the
\* fetcher reaches parse_video_info (executable found and run, zero exit, a
\* stdout line that is JSON), whatever JSON value that line holds, the call
\* returns a VideoInfo, and when the record has a "formats" array the
\* formats list of the VideoInfo has the length of that array.
C11_NeverFailsOnValidJson ==
    IsSome(info) /\ Launched /\ output.status = 0 /\ JsonPlaces # {} =>
        LET r == Unwrap(info)
            arr == as_array(index(FirstRecord, "formats"))
        IN /\ r.ok
           /\ IsSome(arr) => Len(r.value.formats) = Len(Unwrap(arr))

====
